---------------------------- MODULE Spec2Model ----------------------------
(***************************************************************************)
(* Mock server agent: the stub matcher (matcher.rs), the stub/response     *)
(* configuration (config.rs) and the agent's decision and lifecycle        *)
(* callbacks (agent.rs).                                                   *)
(*                                                                         *)
(* Strings are sequences of one-character strings, so that starts_with,    *)
(* find and slicing are computed as the code computes them.                *)
(* Option<T> is [some |-> FALSE] or [some |-> TRUE, val |-> x].            *)
(***************************************************************************)
EXTENDS Integers, Sequences, FiniteSets, TLC

VARIABLES
    config,              \* MockServerAgent.config (immutable after new)
    draining,            \* MockServerAgent.draining: AtomicBool
    requests_total,      \* MockServerAgent.requests_total: AtomicU64
    requests_matched,    \* MockServerAgent.requests_matched: AtomicU64
    requests_unmatched,  \* MockServerAgent.requests_unmatched: AtomicU64
    match_counts,        \* MockServerAgent.match_counts: stub id -> AtomicU32
    pc,                  \* per in-flight on_request future: its position
    call,                \* per in-flight on_request future: its locals
    ret,                 \* per on_request future: the Decision it returned
    answered,            \* history: per stub id, replies built from that stub
    probe                \* input and result of a pure function under test

vars == <<config, draining, requests_total, requests_matched,
          requests_unmatched, match_counts, pc, call, ret, answered, probe>>

\* ------------------------------------------------------------------ bounds

\* on_request futures that may be in flight at the same time
NumCallers == 2

\* on_request calls made over one behaviour
MaxRequests == 3

\* longest value substituted for a template parameter
MaxValueLen == 2

\* longest path that is not made by substitution
MaxPathLen == 4

\* bits of a per-stub match counter.  It is an AtomicU32 in the source; the
\* model keeps it in fewer bits, so that the wrap-around of fetch_add is
\* within reach (TLC's integers end at 2^31 - 1)
MatchCountBits == 5

\* ------------------------------------------------------------------ Option

None == [some |-> FALSE]

Some(x) == [some |-> TRUE, val |-> x]

\* ----------------------------------------------------------------- strings

\* str::starts_with
StartsWith(s, p) ==
    /\ Len(p) <= Len(s)
    /\ SubSeq(s, 1, Len(p)) = p

\* str::find(&str): byte offset (0-based) of the first occurrence, or None
Find(s, p) ==
    LET hits == {i \in 0..(Len(s) - Len(p)) : SubSeq(s, i + 1, i + Len(p)) = p}
    IN  IF hits = {} THEN None
        ELSE Some(CHOOSE i \in hits : \A j \in hits : i <= j)

\* Option::unwrap_or
UnwrapOr(o, d) == IF o.some THEN o.val ELSE d

\* &s[n..]
From(s, n) == SubSeq(s, n + 1, Len(s))

\* &s[..n]
Upto(s, n) == SubSeq(s, 1, n)

\* str::to_uppercase on the method alphabet of the model
ToUpper(m) ==
    CASE m = "get"  -> "GET"
      [] m = "post" -> "POST"
      [] OTHER      -> m

\* str::to_lowercase on the header names of the model
ToLower(name) ==
    CASE name = "Content-Type" -> "content-type"
      [] name = "Content-type" -> "content-type"
      [] name = "CONTENT-TYPE" -> "content-type"
      [] name = "X-Mock"       -> "x-mock"
      [] OTHER                 -> name

\* ------------------------------------------------------------ PathTemplate

Literal(s) == [kind |-> "Literal", text |-> s]

Param(n) == [kind |-> "Param", text |-> n]

\* One iteration of the `for ch in template.chars()` loop of PathTemplate::parse
\* st = [segments, current, in_param, param_name]
ParseChar(st, ch) ==
    IF ch = "{" /\ ~st.in_param THEN
        [segments   |-> IF st.current # <<>>
                        THEN Append(st.segments, Literal(st.current))
                        ELSE st.segments,
         current    |-> <<>>,
         in_param   |-> TRUE,
         param_name |-> <<>>]
    ELSE IF ch = "}" /\ st.in_param THEN
        [st EXCEPT !.segments   = Append(@, Param(st.param_name)),
                   !.in_param   = FALSE,
                   !.param_name = <<>>]
    ELSE IF st.in_param THEN
        [st EXCEPT !.param_name = Append(@, ch)]
    ELSE
        [st EXCEPT !.current = Append(@, ch)]

RECURSIVE ParseLoop(_, _, _)
ParseLoop(template, i, st) ==
    IF i > Len(template) THEN st
    ELSE ParseLoop(template, i + 1, ParseChar(st, template[i]))

\* PathTemplate::parse
PathTemplate_parse(template) ==
    LET st == ParseLoop(template, 1,
                        [segments |-> <<>>, current |-> <<>>,
                         in_param |-> FALSE, param_name |-> <<>>])
    IN  IF st.current # <<>>
        THEN Append(st.segments, Literal(st.current))
        ELSE st.segments

\* self.segments.iter().skip_while(|s| !matches!(s, Literal(_))).next()
\* evaluated while matching the parameter at position k: the iterator is
\* taken over self.segments from its first element, so k does not enter.
next_segment(segments, k) ==
    LET lits == {i \in 1..Len(segments) : segments[i].kind = "Literal"}
    IN  IF lits = {} THEN None
        ELSE Some(segments[CHOOSE i \in lits : \A j \in lits : i <= j])

\* end_pos of the Param branch of PathTemplate::matches
ParamEnd(segments, k, remaining) ==
    LET next == next_segment(segments, k)
    IN  IF next.some
        THEN UnwrapOr(Find(remaining, next.val.text), Len(remaining))
        ELSE UnwrapOr(Find(remaining, <<"/">>), Len(remaining))

\* the loop of PathTemplate::matches without `if end_pos == 0 { return None; }`
RECURSIVE MatchesLoop_EmptyCapture(_, _, _, _)
MatchesLoop_EmptyCapture(segments, k, remaining, params) ==
    IF k > Len(segments) THEN
        IF remaining = <<>> THEN Some(params) ELSE None
    ELSE IF segments[k].kind = "Literal" THEN
        IF StartsWith(remaining, segments[k].text)
        THEN MatchesLoop_EmptyCapture(segments, k + 1,
                         From(remaining, Len(segments[k].text)), params)
        ELSE None
    ELSE
        LET end_pos == ParamEnd(segments, k, remaining)
        IN  MatchesLoop_EmptyCapture(segments, k + 1, From(remaining, end_pos),
                             (segments[k].text :> Upto(remaining, end_pos))
                                 @@ params)

\* the `for segment in &self.segments` loop of PathTemplate::matches, from
\* segment k on, with the path still to consume and the params captured
RECURSIVE MatchesLoop(_, _, _, _)
MatchesLoop(segments, k, remaining, params) ==
    IF k > Len(segments) THEN
        IF remaining = <<>> THEN Some(params) ELSE None
    ELSE IF segments[k].kind = "Literal" THEN
        IF StartsWith(remaining, segments[k].text)
        THEN MatchesLoop(segments, k + 1,
                         From(remaining, Len(segments[k].text)), params)
        ELSE None
    ELSE
        LET end_pos == ParamEnd(segments, k, remaining)
        IN  IF end_pos = 0 THEN None
            ELSE MatchesLoop(segments, k + 1, From(remaining, end_pos),
                             (segments[k].text :> Upto(remaining, end_pos))
                                 @@ params)

\* PathTemplate::matches: None, or Some(map from parameter name to value)
PathTemplate_matches(segments, path) ==
    MatchesLoop(segments, 1, path, <<>>)


\* ------------------------------------------------------------------ Matcher

\* PathMatcher variants of config.rs
Exact(v) == [type |-> "exact", value |-> v]

Regex(pattern) == [type |-> "regex", value |-> pattern]

Glob(pattern) == [type |-> "glob", value |-> pattern]

\* regex::Regex::new(pattern).is_ok(), on the patterns of the model: "("
\* is an unclosed group
Regex_new(pattern) == pattern # "("

\* globset::Glob::new(pattern).is_ok(), on the patterns of the model: "["
\* is an unclosed character class
Glob_new(pattern) == pattern # "["

\* Regex::captures(path).is_some(), on the patterns of the model
Regex_captures(pattern, path) ==
    CASE pattern = "^/h$" -> path = <<"/", "h">>
      [] OTHER -> FALSE

\* GlobMatcher::is_match(path), on the patterns of the model
Glob_is_match(pattern, path) ==
    CASE pattern = "/h*" -> StartsWith(path, <<"/", "h">>)
      [] OTHER -> FALSE

Prefix(v) == [type |-> "prefix", value |-> v]

Template(t) == [type |-> "template", value |-> t]

\* Matcher::new, for one stub: Option<CompiledPathMatcher>
CompiledPathMatcher(stub) ==
    IF ~stub.request.path.some THEN None
    ELSE LET p == stub.request.path.val
         IN  IF p.type = "template"
             THEN Some([type |-> "template",
                        segments |-> PathTemplate_parse(p.value)])
             ELSE Some(p)

\* Matcher::new panics: Regex::new(pattern).unwrap() or
\* Glob::new(pattern).unwrap() is called on an Err
Matcher_new_panics(stubs) ==
    \E i \in 1..Len(stubs) :
        /\ stubs[i].request.path.some
        /\ LET p == stubs[i].request.path.val
           IN  \/ p.type = "regex" /\ ~Regex_new(p.value)
               \/ p.type = "glob" /\ ~Glob_new(p.value)

\* Matcher::new: path_matchers, one entry per stub
Matcher_new(stubs) ==
    [i \in 1..Len(stubs) |-> CompiledPathMatcher(stubs[i])]

MatchContext(path_params) == [path_params |-> path_params]

\* Matcher::matches_path: Option<MatchContext> (None: the path clause fails)
matches_path(matcher, path) ==
    CASE matcher.type = "exact" ->
            IF path = matcher.value THEN Some(MatchContext(<<>>)) ELSE None
      [] matcher.type = "prefix" ->
            IF StartsWith(path, matcher.value)
            THEN Some(MatchContext(<<>>)) ELSE None
      [] matcher.type = "regex" ->
            IF Regex_captures(matcher.value, path)
            THEN Some(MatchContext(<<>>)) ELSE None
      [] matcher.type = "glob" ->
            IF Glob_is_match(matcher.value, path)
            THEN Some(MatchContext(<<>>)) ELSE None
      [] matcher.type = "template" ->
            LET params == PathTemplate_matches(matcher.segments, path)
            IN  IF params.some THEN Some(MatchContext(params.val)) ELSE None

\* Matcher::matches_request for stubs whose query, headers and body clauses
\* are absent (empty maps and None pass without a check)
matches_request(path_matchers, stub_idx, matcher, method, path) ==
    LET method_ok ==
            \/ matcher.method = <<>>
            \/ \E i \in 1..Len(matcher.method) :
                   ToUpper(matcher.method[i]) = ToUpper(method)
    IN  IF ~method_ok THEN None
        ELSE IF path_matchers[stub_idx].some
             THEN matches_path(path_matchers[stub_idx].val, path)
             ELSE Some(MatchContext(<<>>))


\* the placement of an unstable sort: an element goes ahead of the elements
\* already placed that have its own priority
InsertByPriority_Unstable(stubs, sorted, idx) ==
    LET ahead == {k \in 1..Len(sorted) :
                    stubs[sorted[k]].priority > stubs[idx].priority}
        n == Cardinality(ahead)
    IN  SubSeq(sorted, 1, n) \o <<idx>> \o SubSeq(sorted, n + 1, Len(sorted))

\* slice::sort_by(|a, b| b.1.priority.cmp(&a.1.priority)) on the enumerated
\* stubs: a stable sort, so an element goes behind every element already
\* placed whose priority is not lower than its own
InsertByPriority(stubs, sorted, idx) ==
    LET ahead == {k \in 1..Len(sorted) :
                    stubs[sorted[k]].priority >= stubs[idx].priority}
        n == Cardinality(ahead)
    IN  SubSeq(sorted, 1, n) \o <<idx>> \o SubSeq(sorted, n + 1, Len(sorted))

RECURSIVE SortLoop(_, _, _)
SortLoop(stubs, i, sorted) ==
    IF i > Len(stubs) THEN sorted
    ELSE SortLoop(stubs, i + 1, InsertByPriority(stubs, sorted, i))

\* indexed_stubs after the sort: stub indices, highest priority first
indexed_stubs(stubs) == SortLoop(stubs, 1, <<>>)


\* the loop of find_match without `if !stub.enabled { continue; }`
RECURSIVE FindLoop_DisabledToo(_, _, _, _, _, _)
FindLoop_DisabledToo(path_matchers, stubs, order, k, method, path) ==
    IF k > Len(order) THEN None
    ELSE LET idx == order[k]
             context == matches_request(path_matchers, idx,
                                        stubs[idx].request, method, path)
         IN  IF context.some
             THEN Some([stub |-> idx, context |-> context.val])
             ELSE FindLoop_DisabledToo(path_matchers, stubs, order, k + 1,
                                       method, path)

\* the `for (idx, stub) in indexed_stubs` loop of Matcher::find_match
RECURSIVE FindLoop(_, _, _, _, _, _)
FindLoop(path_matchers, stubs, order, k, method, path) ==
    IF k > Len(order) THEN None
    ELSE LET idx == order[k]
             stub == stubs[idx]
         IN  IF ~stub.enabled
             THEN FindLoop(path_matchers, stubs, order, k + 1, method, path)
             ELSE LET context == matches_request(path_matchers, idx,
                                                 stub.request, method, path)
                  IN  IF context.some
                      THEN Some([stub |-> idx, context |-> context.val])
                      ELSE FindLoop(path_matchers, stubs, order, k + 1,
                                    method, path)

\* Matcher::find_match: None or Some(MatchResult); the MatchResult's stub
\* reference is the stub's position in the catalog
find_match(stubs, method, path) ==
    FindLoop(Matcher_new(stubs), stubs, indexed_stubs(stubs), 1, method, path)

\* ------------------------------------------------------------------- config

\* ResponseBody::Text (config.rs)
Text(content) == [type |-> "text", content |-> content]

\* ResponseBody::to_bytes(..).ok(): Option<bytes>
to_bytes(body) ==
    CASE body.type = "text" -> Some(body.content)

\* ResponseBody::content_type
content_type(body) ==
    CASE body.type = "text" -> "text/plain"

\* ResponseDefinition (config.rs) with all four fields
ResponseWith(status, headers, body, template) ==
    [status |-> status, headers |-> headers, body |-> body,
     template |-> template]

\* ResponseDefinition (config.rs) with the serde defaults of headers (empty)
\* and template (false)
ResponseDefinition(status, body) == ResponseWith(status, <<>>, body, FALSE)

\* DelayConfig (config.rs)
DelayConfig(fixed_ms, min_ms, max_ms) ==
    [fixed_ms |-> fixed_ms, min_ms |-> min_ms, max_ms |-> max_ms]

\* FaultConfig variants (config.rs); probability is in percent
FaultError(status) == [type |-> "error", status |-> status, message |-> None]

FaultTimeout(duration_ms) == [type |-> "timeout", duration_ms |-> duration_ms]

FaultEmpty == [type |-> "empty"]

FaultCorrupt(probability) == [type |-> "corrupt", probability |-> probability]

FaultSlowResponse(bps) == [type |-> "slow_response", bytes_per_second |-> bps]

\* StubDefinition (config.rs)
StubDefinition(id, method, path, response, priority, enabled, max_matches, delay, fault) ==
    [id          |-> id,
     request     |-> [method |-> method, path |-> path],
     response    |-> response,
     priority    |-> priority,
     enabled     |-> enabled,
     max_matches |-> max_matches,
     delay       |-> delay,
     fault       |-> fault]

\* MockServerConfig (config.rs)
MockServerConfig(stubs, passthrough_unmatched, default_response) ==
    [stubs            |-> stubs,
     settings         |-> [passthrough_unmatched |-> passthrough_unmatched,
                           default_content_type  |-> "application/json"],
     default_response |-> default_response]

\* calculate drawing from max_ms..=min_ms when the range is given backwards
calculate_OrderedRange(delay) ==
    IF delay.fixed_ms > 0 THEN {delay.fixed_ms}
    ELSE IF delay.max_ms > delay.min_ms THEN delay.min_ms..delay.max_ms
    ELSE delay.max_ms..delay.min_ms

\* DelayConfig::calculate: the values the call can return (gen_range draws
\* any integer of min_ms..=max_ms)
calculate(delay) ==
    IF delay.fixed_ms > 0 THEN {delay.fixed_ms}
    ELSE IF delay.max_ms > delay.min_ms THEN delay.min_ms..delay.max_ms
    ELSE {delay.min_ms}

\* anyhow::Result<()>
Ok == [ok |-> TRUE]

Err(msg) == [ok |-> FALSE, msg |-> msg]

\* PathMatcher::validate
PathMatcher_validate(p) ==
    CASE p.type = "regex" ->
            IF Regex_new(p.value) THEN Ok ELSE Err("Invalid regex")
      [] p.type = "glob" ->
            IF Glob_new(p.value) THEN Ok ELSE Err("Invalid glob")
      [] OTHER -> Ok

\* RequestMatcher::validate
RequestMatcher_validate(request) ==
    IF request.path.some THEN PathMatcher_validate(request.path.val) ELSE Ok

\* ResponseDefinition::validate
ResponseDefinition_validate(response) ==
    IF response.status < 100 \/ response.status > 599
    THEN Err("Invalid status code")
    ELSE Ok

\* StubDefinition::validate
StubDefinition_validate(stub) ==
    IF stub.id = "" THEN Err("Stub id cannot be empty")
    ELSE IF ~RequestMatcher_validate(stub.request).ok
         THEN RequestMatcher_validate(stub.request)
         ELSE ResponseDefinition_validate(stub.response)

\* MockServerConfig::validate: the error of the first stub that has one
MockServerConfig_validate(cfg) ==
    LET bad == {i \in 1..Len(cfg.stubs) :
                   ~StubDefinition_validate(cfg.stubs[i]).ok}
    IN  IF bad = {} THEN Ok
        ELSE StubDefinition_validate(
                 cfg.stubs[CHOOSE i \in bad : \A j \in bad : i <= j])

\* The catalog the agent is run with: a capped stub that outranks an
\* uncapped, delayed one on the same path, and a disabled stub of the
\* highest priority that every path satisfies
AgentStubs ==
    << StubDefinition("capped", <<"GET">>, Some(Exact(<<"/", "h">>)),
                      ResponseDefinition(200, Some(Text(<<"o", "k">>))),
                      1, TRUE, 1, None, None),
       StubDefinition("fallback", <<>>, Some(Prefix(<<"/", "h">>)),
                      ResponseDefinition(201, None),
                      0, TRUE, 0, Some(DelayConfig(0, 0, 1)), None),
       StubDefinition("off", <<>>, Some(Prefix(<<"/">>)),
                      ResponseDefinition(500, None),
                      5, FALSE, 0, None, None) >>

\* The configurations MockServerAgent::new is given
Configs ==
    {MockServerConfig(AgentStubs, p, None) : p \in BOOLEAN}

\* The requests the host delivers: method and path
Requests ==
    { [method |-> "GET",  path |-> <<"/", "h">>],
      [method |-> "post", path |-> <<"/", "h">>],
      [method |-> "GET",  path |-> <<"/", "x">>] }

Callers == 1..NumCallers

StubIds(cfg) == {cfg.stubs[i].id : i \in 1..Len(cfg.stubs)}

\* ----------------------------------------------------------------- Decision

\* the body of the 404 fallback (agent.rs:384), one token per JSON token
\* or blank: {"error": "not_found", "message": "No matching stub found"}
NotFoundBody ==
    << "{", "\"error\"", ":", " ", "\"not_found\"", ",", " ",
       "\"message\"", ":", " ", "\"No matching stub found\"", "}" >>

\* "Error", the body of an Error fault without a message
ErrorBody == << "E", "r", "r", "o", "r" >>

\* "Gateway Timeout (simulated)", the body of a Timeout fault
GatewayTimeoutBody == << "Gateway Timeout (simulated)" >>

\* Decision::allow()
Allow ==
    [kind |-> "allow", status |-> 0, headers |-> {}, body |-> None,
     tags |-> {}, stub_id |-> None, fault_type |-> None]

\* Decision::block(status)
Block(status) == [Allow EXCEPT !.kind = "block", !.status = status]

\* Decision::with_body
with_body(decision, body) == [decision EXCEPT !.body = Some(body)]

\* Decision::with_block_header
with_block_header(decision, name, value) ==
    [decision EXCEPT !.headers = @ \cup {<<name, value>>}]

\* Decision::with_tag
with_tag(decision, tag) == [decision EXCEPT !.tags = @ \cup {tag}]

\* Decision::with_metadata, for the keys "stub_id" and "fault_type"
with_metadata(decision, key, value) ==
    IF key = "stub_id" THEN [decision EXCEPT !.stub_id = Some(value)]
    ELSE [decision EXCEPT !.fault_type = Some(value)]

\* response.headers.get("content-type").or_else(|| get("Content-Type"))
ContentTypeHeader(headers) ==
    IF "content-type" \in DOMAIN headers THEN Some(headers["content-type"])
    ELSE IF "Content-Type" \in DOMAIN headers
         THEN Some(headers["Content-Type"])
         ELSE None

\* the content type of a stub's reply: the response's own header, else
\* the body's content_type(), else settings.default_content_type
StubContentType(response) ==
    UnwrapOr(ContentTypeHeader(response.headers),
             IF response.body.some THEN content_type(response.body.val)
             ELSE config.settings.default_content_type)

\* the `for (name, value) in &response.headers` loop: every header whose
\* lowercased name is not content-type is added
with_response_headers(decision, headers) ==
    [decision EXCEPT !.headers =
        @ \cup {<<name, headers[name]>> :
                   name \in {n \in DOMAIN headers :
                                ToLower(n) # "content-type"}}]

\* `if let Some(content) = body_content { decision.with_body(..) }`
with_body_content(decision, body_content) ==
    IF body_content.some THEN with_body(decision, body_content.val)
    ELSE decision

\* the tags {{path.<name>}} a template text of the model can hold, one
\* token each, with the name of the path parameter each refers to
PathTags == ("{{path.p}}" :> <<"p">>) @@ ("{{path.q}}" :> <<"q">>)

\* a tag that Handlebars cannot parse (an unclosed block), one token
BrokenTag == "{{#if}}"

\* TemplateEngine::render(..).ok(): None when the template has a tag that
\* does not parse; else the text with each {{path.<name>}} replaced by the
\* captured value (by nothing for a name that was not captured)
RECURSIVE render(_, _)
render(content, match_ctx) ==
    IF content = <<>> THEN Some(<<>>)
    ELSE LET rest == render(Tail(content), match_ctx)
             tok == Head(content)
         IN  IF tok = BrokenTag \/ ~rest.some THEN None
             ELSE IF tok \in DOMAIN PathTags
             THEN IF PathTags[tok] \in DOMAIN match_ctx.path_params
                  THEN Some(match_ctx.path_params[PathTags[tok]] \o rest.val)
                  ELSE rest
             ELSE Some(<<tok>> \o rest.val)

\* MockServerAgent::render_template_body
render_template_body(body_def, match_ctx) ==
    CASE body_def.type = "text" -> render(body_def.content, match_ctx)
      [] OTHER -> to_bytes(body_def)

\* the stub's reply given its body content: the part common to
\* build_response (lines 166-197) and build_normal_response (lines 319-347)
StubReply(stub, body_content) ==
    with_body_content(
        with_response_headers(
            with_metadata(
                with_tag(
                    with_block_header(Block(stub.response.status),
                                      "Content-Type",
                                      StubContentType(stub.response)),
                    "mocked"),
                "stub_id", stub.id),
            stub.response.headers),
        body_content)

\* MockServerAgent::build_normal_response: the static body, never rendered
build_normal_response(stub) ==
    StubReply(stub, IF stub.response.body.some
                    THEN to_bytes(stub.response.body.val) ELSE None)

\* build_default_response answering with an empty 404 when no default is
\* configured
build_default_response_BareNotFound(cfg) ==
    IF cfg.default_response.some
    THEN LET default == cfg.default_response.val
             body_content == IF default.body.some
                             THEN to_bytes(default.body.val) ELSE None
             ctype == UnwrapOr(ContentTypeHeader(default.headers),
                               cfg.settings.default_content_type)
         IN  with_body_content(
                 with_response_headers(
                     with_tag(
                         with_tag(
                             with_block_header(Block(default.status),
                                               "Content-Type", ctype),
                             "mocked"),
                         "default_response"),
                     default.headers),
                 body_content)
    ELSE with_tag(Block(404), "mocked")

\* MockServerAgent::build_default_response
build_default_response(cfg) ==
    IF cfg.default_response.some
    THEN LET default == cfg.default_response.val
             body_content == IF default.body.some
                             THEN to_bytes(default.body.val) ELSE None
             ctype == UnwrapOr(ContentTypeHeader(default.headers),
                               cfg.settings.default_content_type)
         IN  with_body_content(
                 with_response_headers(
                     with_tag(
                         with_tag(
                             with_block_header(Block(default.status),
                                               "Content-Type", ctype),
                             "mocked"),
                         "default_response"),
                     default.headers),
                 body_content)
    ELSE with_tag(
             with_tag(
                 with_block_header(
                     with_body(Block(404), NotFoundBody),
                     "Content-Type", "application/json"),
                 "mocked"),
             "not_found")

\* a fault reply without the fault_injected tag
FaultReply_Untagged(decision, stub, fault_type) ==
    with_metadata(
        with_metadata(with_tag(decision, "mocked"), "stub_id", stub.id),
        "fault_type", fault_type)

\* the tags and metadata every fault reply of apply_fault carries
FaultReply(decision, stub, fault_type) ==
    with_metadata(
        with_metadata(
            with_tag(with_tag(decision, "mocked"), "fault_injected"),
            "stub_id", stub.id),
        "fault_type", fault_type)

\* rng.gen::<f64>() < probability, the draw being in [0, 1)
should_corrupt(probability) ==
    IF probability >= 100 THEN {TRUE}
    ELSE IF probability <= 0 THEN {FALSE}
    ELSE BOOLEAN

\* generate_garbage(): random printable characters (two of its outcomes)
generate_garbage == { <<"~">>, <<"#", "~">> }

\* delay_ms of the SlowResponse branch of apply_fault
SlowDelay(stub, bytes_per_second) ==
    LET bytes == IF stub.response.body.some
                 THEN to_bytes(stub.response.body.val) ELSE None
        body_size == IF bytes.some THEN Len(bytes.val) ELSE 100
        bps == IF bytes_per_second > 1 THEN bytes_per_second ELSE 1
    IN  (body_size * 1000) \div bps

\* What one run of a response builder does: the sleep it awaits first
\* (None: it does not sleep) and the Decision it then returns
Effect(sleep, decision) == [sleep |-> sleep, decision |-> decision]

\* MockServerAgent::apply_fault: the effects it can have
apply_fault(fault, stub) ==
    CASE fault.type = "error" ->
            {Effect(None,
                FaultReply(
                    with_block_header(
                        with_body(Block(fault.status),
                                  UnwrapOr(fault.message, ErrorBody)),
                        "Content-Type", "text/plain"),
                    stub, "error"))}
      [] fault.type = "timeout" ->
            {Effect(Some(fault.duration_ms),
                FaultReply(
                    with_block_header(
                        with_body(Block(504), GatewayTimeoutBody),
                        "Content-Type", "text/plain"),
                    stub, "timeout"))}
      [] fault.type = "empty" ->
            {Effect(None, FaultReply(with_body(Block(200), <<>>),
                                     stub, "empty"))}
      [] fault.type = "corrupt" ->
            UNION {IF hit
                   THEN {Effect(None,
                            FaultReply(
                                with_block_header(
                                    with_body(Block(200), garbage),
                                    "Content-Type",
                                    "application/octet-stream"),
                                stub, "corrupt")) :
                            garbage \in generate_garbage}
                   ELSE {Effect(None, build_normal_response(stub))} :
                      hit \in should_corrupt(fault.probability)}
      [] fault.type = "slow_response" ->
            {Effect(Some(SlowDelay(stub, fault.bytes_per_second)),
                    build_normal_response(stub))}

\* lines 149-197 of build_response: the reply of a stub without a fault,
\* its body rendered when response.template is set
BuildReply(stub, match_ctx) ==
    StubReply(stub,
              IF stub.response.body.some
              THEN IF stub.response.template
                   THEN render_template_body(stub.response.body.val, match_ctx)
                   ELSE to_bytes(stub.response.body.val)
              ELSE None)

\* build_response sleeping the stub's delay before it looks at the fault
build_response_DelayBeforeFault(stub, match_ctx) ==
    IF stub.delay.some
    THEN {Effect(IF delay_ms > 0 THEN Some(delay_ms) ELSE None,
                 IF stub.fault.some THEN effect.decision
                 ELSE BuildReply(stub, match_ctx)) :
             delay_ms \in calculate(stub.delay.val),
             effect \in IF stub.fault.some
                        THEN apply_fault(stub.fault.val, stub)
                        ELSE {Effect(None, BuildReply(stub, match_ctx))}}
    ELSE IF stub.fault.some THEN apply_fault(stub.fault.val, stub)
         ELSE {Effect(None, BuildReply(stub, match_ctx))}

\* MockServerAgent::build_response: the effects it can have
build_response(stub, match_ctx) ==
    IF stub.fault.some THEN apply_fault(stub.fault.val, stub)
    ELSE IF stub.delay.some
         THEN {Effect(IF delay_ms > 0 THEN Some(delay_ms) ELSE None,
                      BuildReply(stub, match_ctx)) :
                  delay_ms \in calculate(stub.delay.val)}
         ELSE {Effect(None, BuildReply(stub, match_ctx))}


\* is_stub_exhausted treating every stub as unlimited
is_stub_exhausted_Unlimited(stub, counts) ==
    FALSE

\* is_stub_exhausted comparing with > in place of >=
is_stub_exhausted_PastCap(stub, counts) ==
    IF stub.max_matches = 0 THEN FALSE
    ELSE IF stub.id \in DOMAIN counts
         THEN counts[stub.id] > stub.max_matches
         ELSE FALSE

\* MockServerAgent::is_stub_exhausted, on the counts it reads
is_stub_exhausted(stub, counts) ==
    IF stub.max_matches = 0 THEN FALSE
    ELSE IF stub.id \in DOMAIN counts
         THEN counts[stub.id] >= stub.max_matches
         ELSE FALSE

\* MockServerAgent::increment_match_count: the counts after it
\* (AtomicU32::fetch_add wraps around on overflow)
increment_match_count(counts, stub_id) ==
    IF stub_id \in DOMAIN counts
    THEN [counts EXCEPT ![stub_id] = (@ + 1) % (2 ^ MatchCountBits)]
    ELSE counts

\* -------------------------------------------------------------- on_request

\* The locals of one on_request future.  entered_draining is the flag's
\* value when the call began; is_draining is what line 415 read; the d_
\* fields are what this call has added to each counter so far.
NewCall(method, path) ==
    [method |-> method, path |-> path,
     entered_draining |-> FALSE, is_draining |-> FALSE,
     match_result |-> None, exhausted |-> FALSE,
     effect |-> None,
     d_total |-> 0, d_matched |-> 0, d_unmatched |-> 0, d_counts |-> 0]

IdleCall == NewCall("", <<>>)

RECURSIVE SumOver(_, _)
SumOver(f, S) ==
    IF S = {} THEN 0
    ELSE LET x == CHOOSE y \in S : TRUE
         IN  f[x] + SumOver(f, S \ {x})

\* the locals `locals` of a call, charged with what the step adds to the
\* counters
Charged(locals) ==
    [locals EXCEPT
        !.d_total     = @ + (requests_total' - requests_total),
        !.d_matched   = @ + (requests_matched' - requests_matched),
        !.d_unmatched = @ + (requests_unmatched' - requests_unmatched),
        !.d_counts    = @ + (SumOver(match_counts', DOMAIN match_counts)
                             - SumOver(match_counts, DOMAIN match_counts))]

\* on_request returns `decision` to the host
Return(c, decision) ==
    /\ pc' = [pc EXCEPT ![c] = "returned"]
    /\ ret' = [ret EXCEPT ![c] = Some(decision)]
    /\ answered' = IF decision.stub_id.some
                   THEN [answered EXCEPT ![decision.stub_id.val] = @ + 1]
                   ELSE answered

Goto(c, label) ==
    /\ pc' = [pc EXCEPT ![c] = label]
    /\ UNCHANGED <<ret, answered>>

\* the stub a call's MatchResult refers to
StubOf(locals) == config.stubs[locals.match_result.val.stub]

\* line 412: self.requests_total.fetch_add(1)
OnRequestEnter(c, method, path) ==
    /\ pc[c] \in {"idle", "returned", "cancelled"}
    /\ requests_total < MaxRequests
    /\ requests_total' = requests_total + 1
    /\ UNCHANGED <<config, draining, requests_matched, requests_unmatched,
                   match_counts, answered, probe>>
    /\ pc' = [pc EXCEPT ![c] = "is_draining"]
    /\ ret' = [ret EXCEPT ![c] = None]
    /\ call' = [call EXCEPT ![c] =
                   Charged([NewCall(method, path) EXCEPT
                               !.entered_draining = draining])]


\* lines 415-434 without the draining check
OnRequestIsDraining_Unchecked(c) ==
    /\ pc[c] = "is_draining"
    /\ UNCHANGED <<config, draining, requests_total, requests_matched,
                   requests_unmatched, match_counts, probe>>
    /\ LET result == find_match(config.stubs, call[c].method, call[c].path)
       IN  /\ call' = [call EXCEPT ![c] =
                          Charged([@ EXCEPT !.match_result = result])]
           /\ Goto(c, IF result.some THEN "is_stub_exhausted"
                                     ELSE "no_match")

\* lines 415-434 answering a draining call with the default response
OnRequestIsDraining_Blocks(c) ==
    /\ pc[c] = "is_draining"
    /\ UNCHANGED <<config, draining, requests_total, requests_matched,
                   requests_unmatched, match_counts, probe>>
    /\ IF draining
       THEN /\ call' = [call EXCEPT ![c] =
                           Charged([@ EXCEPT !.is_draining = TRUE])]
            /\ Return(c, build_default_response(config))
       ELSE LET result == find_match(config.stubs, call[c].method,
                                     call[c].path)
            IN  /\ call' = [call EXCEPT ![c] =
                               Charged([@ EXCEPT !.match_result = result])]
                /\ Goto(c, IF result.some THEN "is_stub_exhausted"
                                          ELSE "no_match")

\* lines 415-434 counting a request passed through for draining as
\* unmatched
OnRequestIsDraining_CountsUnmatched(c) ==
    /\ pc[c] = "is_draining"
    /\ UNCHANGED <<config, draining, requests_total, requests_matched,
                   match_counts, probe>>
    /\ IF draining
       THEN /\ requests_unmatched' = requests_unmatched + 1
            /\ call' = [call EXCEPT ![c] =
                           Charged([@ EXCEPT !.is_draining = TRUE])]
            /\ Return(c, Allow)
       ELSE LET result == find_match(config.stubs, call[c].method,
                                     call[c].path)
            IN  /\ UNCHANGED requests_unmatched
                /\ call' = [call EXCEPT ![c] =
                               Charged([@ EXCEPT !.match_result = result])]
                /\ Goto(c, IF result.some THEN "is_stub_exhausted"
                                          ELSE "no_match")

\* lines 415-434: if self.is_draining() { return Decision::allow(); }
\* and, the flag read clear, self.matcher.find_match(...) on the request
OnRequestIsDraining(c) ==
    /\ pc[c] = "is_draining"
    /\ UNCHANGED <<config, draining, requests_total, requests_matched,
                   requests_unmatched, match_counts, probe>>
    /\ IF draining
       THEN /\ call' = [call EXCEPT ![c] =
                           Charged([@ EXCEPT !.is_draining = TRUE])]
            /\ Return(c, Allow)
       ELSE LET result == find_match(config.stubs, call[c].method,
                                     call[c].path)
            IN  /\ call' = [call EXCEPT ![c] =
                               Charged([@ EXCEPT !.match_result = result])]
                /\ Goto(c, IF result.some THEN "is_stub_exhausted"
                                          ELSE "no_match")

\* line 439: self.is_stub_exhausted(result.stub).await
OnRequestIsStubExhausted(c) ==
    /\ pc[c] = "is_stub_exhausted"
    /\ UNCHANGED <<config, draining, requests_total, requests_matched,
                   requests_unmatched, match_counts, probe>>
    /\ LET exhausted == is_stub_exhausted(StubOf(call[c]), match_counts)
       IN  /\ call' = [call EXCEPT ![c] =
                          Charged([@ EXCEPT !.exhausted = exhausted])]
           /\ Goto(c, IF exhausted THEN "exhausted" ELSE "matched")


\* the exhausted branch running on into line 456 (no early return): both
\* requests_unmatched and requests_matched are incremented
OnRequestExhausted_AlsoMatched(c) ==
    /\ pc[c] = "exhausted"
    /\ requests_unmatched' = requests_unmatched + 1
    /\ requests_matched' = requests_matched + 1
    /\ UNCHANGED <<config, draining, requests_total, match_counts, probe>>
    /\ call' = [call EXCEPT ![c] = Charged(@)]
    /\ Return(c, IF config.settings.passthrough_unmatched
                 THEN Allow ELSE build_default_response(config))

\* the exhausted branch incrementing requests_matched in place of
\* requests_unmatched
OnRequestExhausted_CountsMatched(c) ==
    /\ pc[c] = "exhausted"
    /\ requests_matched' = requests_matched + 1
    /\ UNCHANGED <<config, draining, requests_total, requests_unmatched,
                   match_counts, probe>>
    /\ call' = [call EXCEPT ![c] = Charged(@)]
    /\ Return(c, IF config.settings.passthrough_unmatched
                 THEN Allow ELSE build_default_response(config))

\* the exhausted branch answering with the default response whatever
\* passthrough_unmatched says
OnRequestExhausted_AlwaysDefault(c) ==
    /\ pc[c] = "exhausted"
    /\ requests_unmatched' = requests_unmatched + 1
    /\ UNCHANGED <<config, draining, requests_total, requests_matched,
                   match_counts, probe>>
    /\ call' = [call EXCEPT ![c] = Charged(@)]
    /\ Return(c, build_default_response(config))

\* lines 440-452: the exhausted branch
OnRequestExhausted(c) ==
    /\ pc[c] = "exhausted"
    /\ requests_unmatched' = requests_unmatched + 1
    /\ UNCHANGED <<config, draining, requests_total, requests_matched,
                   match_counts, probe>>
    /\ call' = [call EXCEPT ![c] = Charged(@)]
    /\ Return(c, IF config.settings.passthrough_unmatched
                 THEN Allow ELSE build_default_response(config))

\* line 456: self.requests_matched.fetch_add(1)
OnRequestMatched(c) ==
    /\ pc[c] = "matched"
    /\ requests_matched' = requests_matched + 1
    /\ UNCHANGED <<config, draining, requests_total, requests_unmatched,
                   match_counts, probe>>
    /\ call' = [call EXCEPT ![c] = Charged(@)]
    /\ Goto(c, "increment_match_count")

\* line 457 moved behind build_response: the builder starts, and may go to
\* sleep, with the match count not yet incremented
OnRequestIncrementMatchCount_AfterBuild(c) ==
    /\ pc[c] = "increment_match_count"
    /\ UNCHANGED <<config, draining, requests_total, requests_matched,
                   requests_unmatched, match_counts, probe>>
    /\ call' = [call EXCEPT ![c] = Charged(@)]
    /\ Goto(c, "build_response")

\* line 457: self.increment_match_count(&result.stub.id).await
OnRequestIncrementMatchCount(c) ==
    /\ pc[c] = "increment_match_count"
    /\ match_counts' = increment_match_count(match_counts, StubOf(call[c]).id)
    /\ UNCHANGED <<config, draining, requests_total, requests_matched,
                   requests_unmatched, probe>>
    /\ call' = [call EXCEPT ![c] = Charged(@)]
    /\ Goto(c, "build_response")

\* lines 469-477 and build_response up to its first await: the builder
\* replies at once, or goes to sleep (delay, Timeout, SlowResponse)
OnRequestBuildResponse(c) ==
    /\ pc[c] = "build_response"
    /\ UNCHANGED <<config, draining, requests_total, requests_matched,
                   requests_unmatched, match_counts, probe>>
    /\ \E effect \in build_response(StubOf(call[c]),
                                     call[c].match_result.val.context) :
          /\ call' = [call EXCEPT ![c] =
                         Charged([@ EXCEPT !.effect = Some(effect)])]
          /\ IF effect.sleep.some
             THEN Goto(c, "sleeping")
             ELSE Return(c, effect.decision)

\* tokio::time::sleep(...).await completes and the builder replies
OnRequestWake(c) ==
    /\ pc[c] = "sleeping"
    /\ UNCHANGED <<config, draining, requests_total, requests_matched,
                   requests_unmatched, match_counts, probe>>
    /\ call' = [call EXCEPT ![c] = Charged(@)]
    /\ Return(c, call[c].effect.val.decision)

\* the host drops the future while it sleeps (capabilities: cancellation):
\* no Decision is returned
OnRequestCancel(c) ==
    /\ pc[c] = "sleeping"
    /\ UNCHANGED <<config, draining, requests_total, requests_matched,
                   requests_unmatched, match_counts, probe>>
    /\ call' = [call EXCEPT ![c] = Charged(@)]
    /\ Goto(c, "cancelled")


\* the None branch without its fetch_add on requests_unmatched
OnRequestNoMatch_Uncounted(c) ==
    /\ pc[c] = "no_match"
    /\ UNCHANGED <<config, draining, requests_total, requests_matched,
                   requests_unmatched, match_counts, probe>>
    /\ call' = [call EXCEPT ![c] = Charged(@)]
    /\ Return(c, IF config.settings.passthrough_unmatched
                 THEN Allow ELSE build_default_response(config))

\* lines 479-494: the None branch
OnRequestNoMatch(c) ==
    /\ pc[c] = "no_match"
    /\ requests_unmatched' = requests_unmatched + 1
    /\ UNCHANGED <<config, draining, requests_total, requests_matched,
                   match_counts, probe>>
    /\ call' = [call EXCEPT ![c] = Charged(@)]
    /\ Return(c, IF config.settings.passthrough_unmatched
                 THEN Allow ELSE build_default_response(config))

\* ---------------------------------------------------- the other callbacks

\* what the host keeps of a callback other than on_request: its name and
\* the value it returned
Observation(callback, result) == [callback |-> callback, result |-> result]

\* the host keeps what a callback returns when probe is such a record
Observing == probe.some /\ DOMAIN probe.val = {"callback", "result"}

\* the callback returns `result` to the host
Observe(callback, result) ==
    probe' = IF Observing THEN Some(Observation(callback, result)) ELSE probe

\* on_response counting the response as a request before it returns allow
OnResponse_Counted ==
    /\ requests_total' = requests_total + 1
    /\ Observe("on_response", Allow)
    /\ UNCHANGED <<config, draining, requests_matched, requests_unmatched,
                   match_counts, pc, call, ret, answered>>

\* MockServerAgent::on_response: Decision::allow(), nothing written
OnResponse ==
    /\ Observe("on_response", Allow)
    /\ UNCHANGED <<config, draining, requests_total, requests_matched,
                   requests_unmatched, match_counts, pc, call, ret, answered>>

\* on_configure applying a non-null payload by starting the agent afresh
OnConfigure_Resets(is_null) ==
    /\ draining' = (draining /\ is_null)
    /\ UNCHANGED <<config, requests_total, requests_matched,
                   requests_unmatched, match_counts, pc, call, ret, answered,
                   probe>>

\* MockServerAgent::on_configure: Ok(()) for a null and a non-null payload
OnConfigure(is_null) ==
    /\ Observe("on_configure", Ok)
    /\ UNCHANGED <<config, draining, requests_total, requests_matched,
                   requests_unmatched, match_counts, pc, call, ret, answered>>

\* HealthStatus::healthy(agent_id)
HealthStatus_healthy(agent_id) ==
    [agent_id |-> agent_id, state |-> "healthy", subsystems |-> <<>>,
     multiplier |-> None]

\* HealthStatus::degraded(agent_id, disabled subsystems, timeout multiplier)
HealthStatus_degraded(agent_id, subsystems, multiplier) ==
    [agent_id |-> agent_id, state |-> "degraded", subsystems |-> subsystems,
     multiplier |-> Some(multiplier)]

\* health_status() reporting healthy whatever the flag says
health_status_AlwaysHealthy == HealthStatus_healthy("mock-server")

\* AgentHandlerV2::health_status, on the state it reads
health_status ==
    IF draining
    THEN HealthStatus_degraded("mock-server", <<"stubbing">>, 1)
    ELSE HealthStatus_healthy("mock-server")

\* CounterMetric::new / GaugeMetric::new
Metric(name, value) == [name |-> name, value |-> value]

\* AgentHandlerV2::metrics_report, on the state it reads
metrics_report ==
    Some([agent_id |-> "mock-server",
          interval_ms |-> 10000,
          counters |->
            << Metric("mock_server_requests_total", requests_total),
               Metric("mock_server_requests_matched_total", requests_matched),
               Metric("mock_server_requests_unmatched_total",
                      requests_unmatched) >>,
          gauges |->
            << Metric("mock_server_stubs_configured", Len(config.stubs)),
               Metric("mock_server_stubs_enabled",
                      Cardinality({i \in 1..Len(config.stubs) :
                                      config.stubs[i].enabled})),
               Metric("mock_server_agent_draining",
                      IF draining THEN 1 ELSE 0) >>])

\* AgentHandlerV2::health_status called by the host
HealthStatus ==
    /\ Observe("health_status", health_status)
    /\ UNCHANGED <<config, draining, requests_total, requests_matched,
                   requests_unmatched, match_counts, pc, call, ret, answered>>

\* AgentHandlerV2::metrics_report called by the host
MetricsReport ==
    /\ Observe("metrics_report", metrics_report)
    /\ UNCHANGED <<config, draining, requests_total, requests_matched,
                   requests_unmatched, match_counts, pc, call, ret, answered>>

\* AgentHandlerV2::on_shutdown: self.draining.store(true)
OnShutdown ==
    /\ draining' = TRUE
    /\ UNCHANGED <<config, requests_total, requests_matched,
                   requests_unmatched, match_counts, pc, call, ret, answered,
                   probe>>

\* AgentHandlerV2::on_drain: self.draining.store(true)
OnDrain ==
    /\ draining' = TRUE
    /\ UNCHANGED <<config, requests_total, requests_matched,
                   requests_unmatched, match_counts, pc, call, ret, answered,
                   probe>>

\* AgentHandlerV2::on_stream_closed: a debug line only
OnStreamClosed ==
    UNCHANGED vars

\* MockServerAgent::new(cfg): the agent's state after construction
MockServerAgent_new(cfg) ==
    /\ config = cfg
    /\ draining = FALSE
    /\ requests_total = 0
    /\ requests_matched = 0
    /\ requests_unmatched = 0
    /\ match_counts = [id \in StubIds(cfg) |-> 0]
    /\ pc = [c \in Callers |-> "idle"]
    /\ call = [c \in Callers |-> IdleCall]
    /\ ret = [c \in Callers |-> None]
    /\ answered = [id \in StubIds(cfg) |-> 0]

Init ==
    /\ \E cfg \in Configs : MockServerAgent_new(cfg)
    /\ probe = None

Next ==
    \/ \E c \in Callers, r \in Requests : OnRequestEnter(c, r.method, r.path)
    \/ \E c \in Callers : OnRequestIsDraining(c)
    \/ \E c \in Callers : OnRequestIsStubExhausted(c)
    \/ \E c \in Callers : OnRequestExhausted(c)
    \/ \E c \in Callers : OnRequestMatched(c)
    \/ \E c \in Callers : OnRequestIncrementMatchCount(c)
    \/ \E c \in Callers : OnRequestBuildResponse(c)
    \/ \E c \in Callers : OnRequestWake(c)
    \/ \E c \in Callers : OnRequestCancel(c)
    \/ \E c \in Callers : OnRequestNoMatch(c)
    \/ OnResponse
    \/ \E is_null \in BOOLEAN : OnConfigure(is_null)
    \/ OnShutdown
    \/ OnDrain
    \/ OnStreamClosed

Spec == Init /\ [][Next]_vars

\* ------------------------------------------------------- claims on the agent

\* no on_request future is between its first line and its end
Quiescent == \A c \in Callers : pc[c] \in {"idle", "returned", "cancelled"}

\* the call of caller c has ended: it returned or its future was dropped
Ended(c) == pc[c] \in {"returned", "cancelled"}

\* stub i of the catalog passes every clause of its matcher on the request
Satisfies(i, method, path) ==
    matches_request(Matcher_new(config.stubs), i, config.stubs[i].request,
                    method, path).some

\* the position of stub i in the order find_match tries the stubs in
Rank(i) ==
    CHOOSE k \in 1..Len(config.stubs) : indexed_stubs(config.stubs)[k] = i

\* C1, as stated: every on_request call, whatever the agent's state, adds
\* exactly 1 to requests_total and exactly 1 to exactly one of
\* requests_matched and requests_unmatched.
C1_EveryCallClassified ==
    \A c \in Callers :
        pc[c] = "returned" =>
            /\ call[c].d_total = 1
            /\ call[c].d_matched + call[c].d_unmatched = 1

\* C1, amended: every on_request call adds exactly 1 to requests_total; a
\* call that reads the draining flag clear adds exactly 1 to exactly one of
\* requests_matched and requests_unmatched, and a call that reads it set
\* adds nothing to either.
C1_ClassifiedUnlessDraining ==
    \A c \in Callers :
        Ended(c) =>
            /\ call[c].d_total = 1
            /\ call[c].d_matched \in {0, 1}
            /\ call[c].d_unmatched \in {0, 1}
            /\ IF call[c].is_draining
               THEN call[c].d_matched + call[c].d_unmatched = 0
               ELSE call[c].d_matched + call[c].d_unmatched = 1

\* a call was passed through by draining after one call was counted as
\* matched and one as unmatched
C1_Witness ==
    /\ requests_matched >= 1
    /\ requests_unmatched >= 1
    /\ \E c \in Callers : pc[c] = "returned" /\ call[c].is_draining

\* C2, as stated: whenever no on_request call is in progress, whatever
\* callbacks ran before, requests_total = requests_matched +
\* requests_unmatched.
C2_TotalIsSum ==
    Quiescent => requests_total = requests_matched + requests_unmatched

\* C2, amended: whenever no on_request call is in progress,
\* requests_matched + requests_unmatched <= requests_total, with equality
\* as long as the draining flag has not been set.
C2_TotalIsSumUntilDrain ==
    Quiescent =>
        /\ requests_matched + requests_unmatched <= requests_total
        /\ ~draining =>
              requests_total = requests_matched + requests_unmatched

\* every call the bound allows has ended, matched and unmatched ones among
\* them, and the flag is still clear
C2_Witness ==
    /\ Quiescent
    /\ ~draining
    /\ requests_total = MaxRequests
    /\ requests_matched >= 1
    /\ requests_unmatched >= 1

\* C3, as stated: under any interleaving, a stub with max_matches = n > 0
\* answers at most n requests and its match count never exceeds n.
C3_NeverOverCap ==
    \A i \in 1..Len(config.stubs) :
        config.stubs[i].max_matches > 0 =>
            /\ answered[config.stubs[i].id] <= config.stubs[i].max_matches
            /\ match_counts[config.stubs[i].id] <= config.stubs[i].max_matches

\* C3, amended: a stub with max_matches = n > 0 answers at most n + K - 1
\* requests when K on_request calls can be in flight together (n when they
\* run one at a time); every call whose cap check finds the count at n or
\* above is counted as unmatched and gets no reply built from a stub.
C3_CapUpToBurst ==
    /\ \A i \in 1..Len(config.stubs) :
          config.stubs[i].max_matches > 0 =>
              answered[config.stubs[i].id]
                  <= config.stubs[i].max_matches + NumCallers - 1
    /\ \A c \in Callers :
          call[c].exhausted =>
              /\ pc[c] \in {"exhausted", "returned"}
              /\ call[c].d_matched = 0
              /\ call[c].d_counts = 0
              /\ pc[c] = "returned" =>
                    /\ call[c].d_unmatched = 1
                    /\ ~ret[c].val.stub_id.some

\* the capped stub has answered one request more than its cap, and a later
\* call found it exhausted
C3_Witness ==
    /\ \E i \in 1..Len(config.stubs) :
          /\ config.stubs[i].max_matches > 0
          /\ answered[config.stubs[i].id] > config.stubs[i].max_matches
    /\ \E c \in Callers : pc[c] = "returned" /\ call[c].exhausted

\* C5: a call that begins once the draining flag is set returns allow, adds
\* 1 to requests_total and nothing to requests_matched, requests_unmatched
\* or any per-stub match count.
C5_AfterDrainPassThrough ==
    \A c \in Callers :
        call[c].entered_draining =>
            /\ pc[c] \in {"is_draining", "returned"}
            /\ call[c].d_total = 1
            /\ call[c].d_matched = 0
            /\ call[c].d_unmatched = 0
            /\ call[c].d_counts = 0
            /\ pc[c] = "returned" => ret[c] = Some(Allow)

\* a call that began after the flag was set has returned, after an earlier
\* call was answered from a stub
C5_Witness ==
    /\ requests_matched >= 1
    /\ \E c \in Callers : pc[c] = "returned" /\ call[c].entered_draining

\* C6, as stated: no on_request call returns a block decision at a moment
\* when the draining flag is set, calls already past the drain check
\* included.
C6_NoBlockOnceDraining ==
    [][\A c \in Callers :
          (pc[c] # "returned" /\ pc'[c] = "returned"
              /\ ret'[c].val.kind = "block") => ~draining]_vars

\* C6, amended: no on_request call that reads the draining flag set returns
\* a block decision: it returns allow at once; a call that read the flag
\* clear runs on and may return a block decision after the flag is set.
C6_NoBlockAfterReadingDrain ==
    \A c \in Callers :
        /\ call[c].is_draining => pc[c] = "returned" /\ ret[c] = Some(Allow)
        /\ (pc[c] = "returned" /\ ret[c].val.kind = "block") =>
              ~call[c].is_draining
        /\ pc[c] \notin {"idle", "is_draining", "returned"} =>
              ~call[c].is_draining

\* the flag is set, one call has been passed through for it, and another,
\* which had read the flag clear, has returned a stub's reply after sleeping
C6_Witness ==
    /\ draining
    /\ \E c \in Callers : pc[c] = "returned" /\ call[c].is_draining
    /\ \E c \in Callers :
          /\ pc[c] = "returned"
          /\ ret[c].val.kind = "block"
          /\ call[c].effect.some
          /\ call[c].effect.val.sleep.some

\* C7: the draining flag is false initially and no callback ever clears it
\* once it is set.
C7_DrainingMonotonic ==
    /\ draining = FALSE
    /\ [][draining => draining']_vars

\* the flag is set and calls have begun and ended since
C7_Witness ==
    /\ draining
    /\ requests_total = MaxRequests
    /\ \E c \in Callers : pc[c] = "returned" /\ call[c].entered_draining

\* C8: a disabled stub is never the result of find_match and never answers
\* a request, whatever its priority and even when it is the only stub the
\* request satisfies.
C8_DisabledNeverAnswers ==
    /\ \A c \in Callers :
          /\ call[c].match_result.some => StubOf(call[c]).enabled
          /\ (pc[c] = "returned" /\ ret[c].val.stub_id.some) =>
                \A i \in 1..Len(config.stubs) :
                    config.stubs[i].id = ret[c].val.stub_id.val =>
                        config.stubs[i].enabled
    /\ \A i \in 1..Len(config.stubs) :
          ~config.stubs[i].enabled =>
              /\ answered[config.stubs[i].id] = 0
              /\ match_counts[config.stubs[i].id] = 0

\* one request that only a disabled stub satisfies has ended unmatched, and
\* another that a disabled stub of higher priority satisfies was answered
\* from an enabled stub
C8_Witness ==
    /\ \E c \in Callers :
          /\ pc[c] = "returned"
          /\ ~call[c].is_draining
          /\ ~call[c].match_result.some
          /\ \E i \in 1..Len(config.stubs) :
                /\ ~config.stubs[i].enabled
                /\ Satisfies(i, call[c].method, call[c].path)
    /\ \E c \in Callers :
          /\ pc[c] = "returned"
          /\ ret[c].val.stub_id.some
          /\ \E i \in 1..Len(config.stubs) :
                /\ ~config.stubs[i].enabled
                /\ Satisfies(i, call[c].method, call[c].path)
                /\ config.stubs[i].priority > StubOf(call[c]).priority

\* the stubs other than the selected one that would still answer the
\* request of call c: enabled, satisfied, later in the order, cap not reached
Shadowed(c) ==
    {i \in 1..Len(config.stubs) :
        /\ config.stubs[i].enabled
        /\ Satisfies(i, call[c].method, call[c].path)
        /\ Rank(i) > Rank(call[c].match_result.val.stub)
        /\ ~is_stub_exhausted(config.stubs[i], match_counts)}

\* C9, as stated: when the selected stub has reached its cap and a
\* lower-ordered enabled stub, not exhausted, also satisfies the request,
\* the request is answered from that stub.
C9_ExhaustedFallsThrough ==
    \A c \in Callers :
        (pc[c] = "returned" /\ call[c].exhausted /\ Shadowed(c) # {}) =>
            /\ ret[c].val.stub_id.some
            /\ \E i \in Shadowed(c) :
                  config.stubs[i].id = ret[c].val.stub_id.val

\* C9, amended: when the selected stub has reached its cap the request is
\* counted as unmatched and answered as an unmatched request (allow when
\* passthrough_unmatched is set, the default response otherwise), also when
\* a lower-ordered enabled stub, not exhausted, satisfies it: that stub is
\* not consulted.
C9_ExhaustedIsUnmatched ==
    \A c \in Callers :
        (pc[c] = "returned" /\ call[c].exhausted /\ Shadowed(c) # {}) =>
            /\ ~ret[c].val.stub_id.some
            /\ ret[c].val = IF config.settings.passthrough_unmatched
                            THEN Allow ELSE build_default_response(config)
            /\ call[c].d_unmatched = 1
            /\ call[c].d_matched = 0
            /\ call[c].d_counts = 0

\* a call whose selected stub was exhausted has returned although another
\* stub would have answered its request
C9_Witness ==
    \E c \in Callers :
        pc[c] = "returned" /\ call[c].exhausted /\ Shadowed(c) # {}

\* ------------------------------------------------ find_match on catalogs

\* stubs in a drawn catalog
CatalogLen == 3

\* the priorities (i32) a drawn stub can have
Priorities == {-1, 0, 1}

\* the path matchers a drawn stub can have
DrawnPaths == {Prefix(<<"/">>), Exact(<<"/", "a">>)}

\* the catalogs find_match is run on: every choice of priority, enabled
\* flag and path matcher for each stub; stub i has the id <<"s", i>>
DrawnCatalogs ==
    {[i \in 1..CatalogLen |->
         StubDefinition(<<"s", i>>, <<>>, Some(c[i][3]),
                        ResponseDefinition(200, None),
                        c[i][1], c[i][2], 0, None, None)] :
        c \in [1..CatalogLen -> Priorities \X BOOLEAN \X DrawnPaths]}

DrawnRequests ==
    { [method |-> "GET", path |-> <<"/", "a">>],
      [method |-> "GET", path |-> <<"/", "b">>] }

InitMatch ==
    /\ \E stubs \in DrawnCatalogs :
          MockServerAgent_new(MockServerConfig(stubs, FALSE, None))
    /\ probe = None

\* one call of self.matcher.find_match(&self.config.stubs, method, path, ...)
FindMatch(method, path) ==
    /\ probe = None
    /\ probe' = Some([method |-> method, path |-> path,
                      result |-> find_match(config.stubs, method, path)])
    /\ UNCHANGED <<config, draining, requests_total, requests_matched,
                   requests_unmatched, match_counts, pc, call, ret, answered>>

NextMatch ==
    \E r \in DrawnRequests : FindMatch(r.method, r.path)

SpecMatch == InitMatch /\ [][NextMatch]_vars

\* the enabled stubs whose clauses the request satisfies
Candidates(method, path) ==
    {i \in 1..Len(config.stubs) :
        config.stubs[i].enabled /\ Satisfies(i, method, path)}

\* stub a is ahead of stub b: higher priority, or the same priority and
\* earlier in the catalog
Ahead(a, b) ==
    \/ config.stubs[a].priority > config.stubs[b].priority
    \/ /\ config.stubs[a].priority = config.stubs[b].priority
       /\ a < b

\* C4: of the enabled stubs a request satisfies, find_match returns one
\* whenever there is one, and never one that another of them is ahead of:
\* a higher priority wins, and among equal priorities the earlier stub of
\* the catalog.
C4_PriorityDominance ==
    probe.some =>
        LET r == probe.val
            sat == Candidates(r.method, r.path)
        IN  /\ r.result.some <=> sat # {}
            /\ r.result.some => r.result.val.stub \in sat
            /\ \A a \in sat, b \in sat :
                  Ahead(a, b) => r.result.val.stub # b

\* find_match chose a stub over an earlier one of lower priority and over a
\* later one of the same priority
C4_Witness ==
    /\ probe.some
    /\ probe.val.result.some
    /\ LET r == probe.val
           chosen == r.result.val.stub
           sat == Candidates(r.method, r.path)
       IN  /\ \E b \in sat :
                 b < chosen
                 /\ config.stubs[b].priority < config.stubs[chosen].priority
           /\ \E b \in sat :
                 b > chosen
                 /\ config.stubs[b].priority = config.stubs[chosen].priority

\* ------------------------------------------ PathTemplate on drawn inputs

\* the templates PathTemplate::parse and matches are run on
Templates ==
    { <<"/", "a", "/", "{", "p", "}", "/", "b">>,
      <<"/", "a", "/", "{", "p", "}", "/", "b", "/", "{", "q", "}", "/", "c">>,
      <<"{", "p", "}", "/", "b">>,
      <<"/", "u", "/", "{", "p", "}">> }

\* the characters of a parameter value and of a free path
ValueChars == {"x", "b"}

PathChars == {"/", "a", "b", "u", "x"}

\* the strings over `chars` of length 1..n
Strings(chars, n) == UNION {[1..k -> chars] : k \in 1..n}

\* the names of the parameters of a parsed template
ParamNames(segments) ==
    {segments[k].text : k \in {j \in 1..Len(segments) :
                                  segments[j].kind = "Param"}}

\* the path a parsed template denotes when each parameter is given its
\* value: the literals verbatim, each parameter replaced by its value
RECURSIVE Substitute(_, _, _)
Substitute(segments, k, values) ==
    IF k > Len(segments) THEN <<>>
    ELSE (IF segments[k].kind = "Literal" THEN segments[k].text
          ELSE values[segments[k].text])
         \o Substitute(segments, k + 1, values)

\* a template with a path made by substitution (values: Some(the values))
\* or another path (values: None): a free one, or a substituted one with a
\* further segment after it; result: None until matches has run
TemplateProbe(template, path, values) ==
    [template |-> template, path |-> path, values |-> values,
     done |-> FALSE, result |-> None]

InitTemplate ==
    /\ MockServerAgent_new(MockServerConfig(<<>>, FALSE, None))
    /\ \E t \in Templates :
          \/ \E values \in [ParamNames(PathTemplate_parse(t)) ->
                               Strings(ValueChars, MaxValueLen)] :
                probe = Some(TemplateProbe(
                          t, Substitute(PathTemplate_parse(t), 1, values),
                          Some(values)))
          \/ \E path \in Strings(PathChars, MaxPathLen) :
                probe = Some(TemplateProbe(t, path, None))
          \/ \E values \in [ParamNames(PathTemplate_parse(t)) ->
                               Strings(ValueChars, MaxValueLen)],
                further \in Strings(ValueChars, MaxValueLen) :
                probe = Some(TemplateProbe(
                          t, Substitute(PathTemplate_parse(t), 1, values)
                                \o <<"/">> \o further,
                          None))

\* PathTemplate::parse(template).matches(path)
TemplateMatches ==
    /\ ~probe.val.done
    /\ probe' = Some([probe.val EXCEPT
                         !.done = TRUE,
                         !.result = PathTemplate_matches(
                                        PathTemplate_parse(probe.val.template),
                                        probe.val.path)])
    /\ UNCHANGED <<config, draining, requests_total, requests_matched,
                   requests_unmatched, match_counts, pc, call, ret, answered>>

NextTemplate == TemplateMatches

SpecTemplate == InitTemplate /\ [][NextTemplate]_vars

\* some parameter segment of the template has a literal segment after it
ParamBeforeLiteral(segments) ==
    \E k \in 1..Len(segments) :
        /\ segments[k].kind = "Param"
        /\ k < Len(segments)
        /\ segments[k + 1].kind = "Literal"

\* C10: a template in which a parameter is followed by a literal matches
\* every path made by giving each parameter a non-empty value without '/',
\* and returns exactly those values as path_params.
C10_MatchesEverySubstitution ==
    (/\ probe.some
     /\ probe.val.done
     /\ probe.val.values.some
     /\ ParamBeforeLiteral(PathTemplate_parse(probe.val.template)))
        => probe.val.result = Some(probe.val.values.val)

\* the paths a parsed template denotes when some parameter is given the
\* empty value and the others values of at most n characters
EmptyCapturePaths(segments, n) ==
    {Substitute(segments, 1, values) :
        values \in {v \in [ParamNames(segments) ->
                              {<<>>} \cup Strings(ValueChars, n)] :
                       \E name \in ParamNames(segments) : v[name] = <<>>}}

\* C11: PathTemplate.matches succeeds only if every parameter captured a
\* non-empty string and the whole path was consumed: a successful match
\* returns a non-empty value for each parameter of the template, and the
\* path is exactly the template with those values in place of the
\* parameters (nothing left over); a path that leaves a parameter empty
\* does not match.
C11_NonEmptyAndFullyConsumed ==
    (probe.some /\ probe.val.done) =>
        LET segments == PathTemplate_parse(probe.val.template)
            result == probe.val.result
        IN  /\ result.some =>
                  /\ DOMAIN result.val = ParamNames(segments)
                  /\ \A name \in ParamNames(segments) : result.val[name] # <<>>
                  /\ probe.val.path = Substitute(segments, 1, result.val)
            /\ probe.val.path \in EmptyCapturePaths(segments, MaxValueLen) =>
                  ~result.some

\* matches has rejected /u/ for the template /u/{p}: the parameter would
\* be empty
C11_Witness ==
    /\ probe.some
    /\ probe.val.done
    /\ probe.val.template = <<"/", "u", "/", "{", "p", "}">>
    /\ probe.val.path = <<"/", "u", "/">>
    /\ ~probe.val.result.some

\* ------------------------------------------------ claims on the replies

\* a JSON text without the blanks between its tokens
JsonTokens(text) == SelectSeq(text, LAMBDA tok : tok # " ")

\* the call of caller c has returned, had read the draining flag clear and
\* found no stub for its request
ReturnedNoMatch(c) ==
    /\ pc[c] = "returned"
    /\ ~call[c].is_draining
    /\ ~call[c].match_result.some

ReplyStubs ==
    << StubDefinition("plain", <<"GET">>, Some(Exact(<<"/", "p">>)),
                      ResponseWith(200, ("X-Mock" :> "1"),
                                   Some(Text(<<"o", "k">>)), FALSE),
                      0, TRUE, 0, None, None),
       StubDefinition("error", <<>>, Some(Exact(<<"/", "e">>)),
                      ResponseDefinition(200, None),
                      0, TRUE, 0, None, Some(FaultError(503))),
       StubDefinition("timeout", <<>>, Some(Exact(<<"/", "t">>)),
                      ResponseDefinition(200, None),
                      0, TRUE, 0, None, Some(FaultTimeout(1))),
       StubDefinition("empty", <<>>, Some(Exact(<<"/", "m">>)),
                      ResponseDefinition(200, Some(Text(<<"o", "k">>))),
                      0, TRUE, 0, None, Some(FaultEmpty)),
       StubDefinition("corrupt", <<>>, Some(Exact(<<"/", "c">>)),
                      ResponseDefinition(202, Some(Text(<<"o", "k">>))),
                      0, TRUE, 0, None, Some(FaultCorrupt(50))),
       StubDefinition("slow", <<>>, Some(Exact(<<"/", "s">>)),
                      ResponseDefinition(203, Some(Text(<<"o", "k">>))),
                      0, TRUE, 0, None, Some(FaultSlowResponse(1000))),
       StubDefinition("capped", <<>>, Some(Exact(<<"/", "k">>)),
                      ResponseDefinition(204, None),
                      0, TRUE, 1, None, None) >>

\* a configured default_response
TeapotResponse ==
    ResponseWith(418, ("X-Mock" :> "0"), Some(Text(<<"n", "o">>)), FALSE)

ReplyConfigs ==
    {MockServerConfig(ReplyStubs, p, d) :
        p \in BOOLEAN, d \in {None, Some(TeapotResponse)}}

\* one request per stub, and one no stub matches
ReplyRequests ==
    { [method |-> "GET", path |-> <<"/", ch>>] :
        ch \in {"p", "e", "t", "m", "c", "s", "k", "x"} }

InitReply ==
    /\ \E cfg \in ReplyConfigs : MockServerAgent_new(cfg)
    /\ probe = None

\* the callbacks, with on_request called by one caller at a time
NextReply ==
    \/ \E r \in ReplyRequests : OnRequestEnter(1, r.method, r.path)
    \/ OnRequestIsDraining(1)
    \/ OnRequestIsStubExhausted(1)
    \/ OnRequestExhausted(1)
    \/ OnRequestMatched(1)
    \/ OnRequestIncrementMatchCount(1)
    \/ OnRequestBuildResponse(1)
    \/ OnRequestWake(1)
    \/ OnRequestCancel(1)
    \/ OnRequestNoMatch(1)
    \/ OnResponse
    \/ \E is_null \in BOOLEAN : OnConfigure(is_null)
    \/ OnShutdown
    \/ OnDrain
    \/ OnStreamClosed

SpecReply == InitReply /\ [][NextReply]_vars

\* the call of caller c has returned as an unmatched request: it had read
\* the draining flag clear and found no stub, or found its stub exhausted
ReturnedUnmatched(c) ==
    /\ pc[c] = "returned"
    /\ ~call[c].is_draining
    /\ (~call[c].match_result.some \/ call[c].exhausted)

\* C13: passthrough_unmatched fixes the outcome of an unmatched request:
\* when it is true, every non-draining request that matches no stub or
\* whose selected stub is cap-exhausted gets allow; when it is false, it
\* gets a block decision: the configured default_response, tagged
\* default_response, or the 404 fallback when none is configured.
C13_PassthroughDecides ==
    \A c \in Callers :
        ReturnedUnmatched(c) =>
            LET decision == ret[c].val
            IN  IF config.settings.passthrough_unmatched
                THEN decision = Allow
                ELSE /\ decision.kind = "block"
                     /\ ~decision.stub_id.some
                     /\ IF config.default_response.some
                        THEN /\ decision.status =
                                   config.default_response.val.status
                             /\ decision.tags = {"mocked", "default_response"}
                        ELSE /\ decision.status = 404
                             /\ decision.tags = {"mocked", "not_found"}

\* with a default response configured and passthrough off, two requests
\* have ended unmatched, the last because its stub was exhausted: it got
\* the default response
C13_Witness ==
    /\ ~config.settings.passthrough_unmatched
    /\ config.default_response.some
    /\ requests_unmatched >= 2
    /\ pc[1] = "returned"
    /\ call[1].exhausted
    /\ ret[1].val.status = 418

\* the call of caller c has returned the reply built for its selected stub,
\* which was not exhausted
ReturnedStubReply(c) ==
    /\ pc[c] = "returned"
    /\ call[c].match_result.some
    /\ ~call[c].exhausted

\* the fault types whose reply apply_fault builds itself
FaultTypes == {"error", "timeout", "empty", "corrupt"}

\* C14: every reply built for a selected, non-exhausted stub carries the
\* tag mocked and metadata stub_id = the stub's id.  A reply that a fault
\* produced (Error, Timeout, Empty, or Corrupt when it fires) carries in
\* addition the tag fault_injected and metadata fault_type, the fault's
\* type, one of error, timeout, empty, corrupt; every other reply (no
\* fault, Corrupt that did not fire, SlowResponse) carries neither.
C14_TagsAndMetadata ==
    \A c \in Callers :
        ReturnedStubReply(c) =>
            LET decision == ret[c].val
                stub == StubOf(call[c])
                tagged == /\ decision.tags = {"mocked", "fault_injected"}
                          /\ decision.fault_type = Some(stub.fault.val.type)
                          /\ stub.fault.val.type \in FaultTypes
                plain == /\ decision.tags = {"mocked"}
                         /\ ~decision.fault_type.some
            IN  /\ decision.kind = "block"
                /\ "mocked" \in decision.tags
                /\ decision.stub_id = Some(stub.id)
                /\ ("fault_injected" \in decision.tags)
                       <=> decision.fault_type.some
                /\ IF ~stub.fault.some THEN plain
                   ELSE IF stub.fault.val.type \in {"error", "timeout", "empty"}
                        THEN tagged
                   ELSE IF stub.fault.val.type = "corrupt"
                        THEN tagged \/ (plain /\ decision =
                                            build_normal_response(stub))
                   ELSE plain

\* a Corrupt fault has fired on the last request, after a request answered
\* from a stub without a fault
C14_Witness ==
    /\ answered["plain"] >= 1
    /\ ReturnedStubReply(1)
    /\ ret[1].val.fault_type = Some("corrupt")
    /\ "fault_injected" \in ret[1].val.tags

\* ---------------------------------- validation and construction of agents

\* the longest catalog drawn for validation
MaxStubs == 2

\* a stub as drawn for validation: no delay, no fault
ValidateStub(id, path, status, max_matches) ==
    StubDefinition(id, <<>>, Some(path), ResponseDefinition(status, None),
                   0, TRUE, max_matches, None, None)

\* the stubs catalogs are drawn from: ids that repeat or are empty,
\* statuses in and out of 100..=599, patterns that compile and do not
ValidateStubs ==
    { ValidateStub("a", Exact(<<"/", "h">>), 200, 1),
      ValidateStub("a", Exact(<<"/", "x">>), 201, 0),
      ValidateStub("b", Exact(<<"/", "h">>), 99, 0),
      ValidateStub("",  Exact(<<"/", "x">>), 200, 0),
      ValidateStub("c", Regex("^/h$"), 200, 0),
      ValidateStub("c", Regex("("), 200, 0),
      ValidateStub("d", Glob("/h*"), 599, 0),
      ValidateStub("d", Glob("["), 200, 0) }

\* the configurations handed to from_file, from_yaml and new, once parsed
ValidateConfigs ==
    { MockServerConfig(stubs, FALSE, d) :
        stubs \in UNION {[1..n -> ValidateStubs] : n \in 0..MaxStubs},
        d \in {None, Some(ResponseDefinition(100, None)),
               Some(ResponseDefinition(700, None))} }

\* the ways a MockServerAgent is constructed
Constructors == {"from_file", "from_yaml", "new"}

\* the agent of MockServerConfig::default() stands in until one is
\* constructed from the drawn configuration
InitValidate ==
    /\ MockServerAgent_new(MockServerConfig(<<>>, FALSE, None))
    /\ \E cfg \in ValidateConfigs, via \in Constructors :
          probe = Some([source |-> cfg, via |-> via, stage |-> "parsed",
                        validated |-> FALSE])

\* MockServerConfig::from_file, line 31: config.validate()?
FromFileValidate ==
    /\ probe.val.via = "from_file"
    /\ probe.val.stage = "parsed"
    /\ probe' = Some([probe.val EXCEPT
                         !.validated = TRUE,
                         !.stage = IF MockServerConfig_validate(
                                         probe.val.source).ok
                                   THEN "validated" ELSE "config_error"])
    /\ UNCHANGED <<config, draining, requests_total, requests_matched,
                   requests_unmatched, match_counts, pc, call, ret, answered>>

\* MockServerAgent::new(config): called by main after from_file returned
\* Ok, by from_yaml right after parsing, or directly
MockServerAgentNew ==
    /\ \/ probe.val.via = "from_file" /\ probe.val.stage = "validated"
       \/ probe.val.via \in {"from_yaml", "new"} /\ probe.val.stage = "parsed"
    /\ IF Matcher_new_panics(probe.val.source.stubs)
       THEN /\ probe' = Some([probe.val EXCEPT !.stage = "panicked"])
            /\ UNCHANGED <<config, draining, requests_total, requests_matched,
                           requests_unmatched, match_counts, pc, call, ret,
                           answered>>
       ELSE /\ probe' = Some([probe.val EXCEPT !.stage = "serving"])
            /\ config' = probe.val.source
            /\ draining' = FALSE
            /\ requests_total' = 0
            /\ requests_matched' = 0
            /\ requests_unmatched' = 0
            /\ match_counts' = [id \in StubIds(probe.val.source) |-> 0]
            /\ answered' = [id \in StubIds(probe.val.source) |-> 0]
            /\ UNCHANGED <<pc, call, ret>>

\* the requests sent to the constructed agent
ValidateRequests ==
    { [method |-> "GET", path |-> <<"/", "h">>],
      [method |-> "GET", path |-> <<"/", "x">>] }

\* the agent has been constructed from the drawn configuration
Serving == probe.val.stage = "serving"

\* construction, then on_request, one call at a time, on the constructed
\* agent
NextValidate ==
    \/ FromFileValidate
    \/ MockServerAgentNew
    \/ \E r \in ValidateRequests :
          Serving /\ OnRequestEnter(1, r.method, r.path)
    \/ Serving /\ OnRequestIsDraining(1)
    \/ Serving /\ OnRequestIsStubExhausted(1)
    \/ Serving /\ OnRequestExhausted(1)
    \/ Serving /\ OnRequestMatched(1)
    \/ Serving /\ OnRequestIncrementMatchCount(1)
    \/ Serving /\ OnRequestBuildResponse(1)
    \/ Serving /\ OnRequestNoMatch(1)

SpecValidate == InitValidate /\ [][NextValidate]_vars

\* the ids of a catalog are non-empty and no two stubs share one
UniqueIds(stubs) ==
    /\ \A i \in 1..Len(stubs) : stubs[i].id # ""
    /\ \A i, j \in 1..Len(stubs) : stubs[i].id = stubs[j].id => i = j

\* C15: validation rejects every configuration in which a stub id is empty
\* or two stubs share an id: a configuration that validate() accepted, and
\* so every catalog that from_file puts into service, has ids that are
\* non-empty and unique, and each per-stub counter belongs to one stub.
C15_ValidatedIdsUnique ==
    (/\ probe.some
     /\ probe.val.via = "from_file"
     /\ probe.val.stage \in {"validated", "serving"}) =>
        /\ UniqueIds(probe.val.source.stubs)
        /\ probe.val.stage = "serving" =>
              Cardinality(DOMAIN match_counts) = Len(config.stubs)

\* a status ResponseDefinition::validate accepts
ValidStatus(status) == status >= 100 /\ status <= 599

\* C16: validate returns an error for every configuration with a response
\* definition whose status is outside 100..=599, be it a stub's or the
\* top-level default_response: in a configuration that from_file accepted
\* every response definition has a status in that range, and so has every
\* reply the agent builds from it.
C16_ValidatedStatusInRange ==
    (/\ probe.some
     /\ probe.val.via = "from_file"
     /\ probe.val.stage \in {"validated", "serving"}) =>
        LET cfg == probe.val.source
        IN  /\ \A i \in 1..Len(cfg.stubs) :
                  ValidStatus(cfg.stubs[i].response.status)
            /\ cfg.default_response.some =>
                  ValidStatus(cfg.default_response.val.status)
            /\ (/\ probe.val.stage = "serving"
                /\ pc[1] = "returned"
                /\ ret[1].val.kind = "block") =>
                  ValidStatus(ret[1].val.status)

\* the regex and glob patterns of a catalog all compile
PatternsCompile(stubs) ==
    \A i \in 1..Len(stubs) :
        stubs[i].request.path.some =>
            PathMatcher_validate(stubs[i].request.path.val).ok

\* C17: an invalid path regex or glob is always a configuration error of
\* validation: however the agent is constructed (from_file and new,
\* from_yaml, new), Matcher::new is only reached with patterns that passed
\* validation, so construction never panics and every agent in service
\* has patterns that compile.
C17_NoPanicOnAnyConstructor ==
    probe.some =>
        /\ probe.val.stage # "panicked"
        /\ probe.val.stage = "serving" => PatternsCompile(config.stubs)

\* ------------------------------------------------- the lifecycle callbacks

\* an agent of the catalog, with a host that keeps what the callbacks return
InitLifecycle ==
    /\ \E cfg \in Configs : MockServerAgent_new(cfg)
    /\ probe = Some(Observation("none", None))

\* every callback of the handler, with on_request called by one caller at a
\* time
NextLifecycle ==
    \/ \E r \in Requests : OnRequestEnter(1, r.method, r.path)
    \/ OnRequestIsDraining(1)
    \/ OnRequestIsStubExhausted(1)
    \/ OnRequestExhausted(1)
    \/ OnRequestMatched(1)
    \/ OnRequestIncrementMatchCount(1)
    \/ OnRequestBuildResponse(1)
    \/ OnRequestWake(1)
    \/ OnRequestCancel(1)
    \/ OnRequestNoMatch(1)
    \/ OnResponse
    \/ \E is_null \in BOOLEAN : OnConfigure(is_null)
    \/ HealthStatus
    \/ MetricsReport
    \/ OnShutdown
    \/ OnDrain
    \/ OnStreamClosed

SpecLifecycle == InitLifecycle /\ [][NextLifecycle]_vars

\* the step hands the host a value returned by callback cb
Returns(cb) == probe' # probe /\ probe'.val.callback = cb

\* C18: on_configure, with a null or a non-null payload, returns Ok and
\* on_response returns allow, and neither changes the stub catalog, the
\* settings, the per-stub match counts, the three request counters or the
\* draining flag.
C18_ConfigureAndResponseInert ==
    [][ /\ (Returns("on_configure") \/ \E is_null \in BOOLEAN : OnConfigure(is_null))
            => /\ probe'.val = Observation("on_configure", Ok)
               /\ UNCHANGED <<config, match_counts, requests_total,
                              requests_matched, requests_unmatched, draining>>
        /\ (Returns("on_response") \/ OnResponse)
            => /\ probe'.val = Observation("on_response", Allow)
               /\ UNCHANGED <<config, match_counts, requests_total,
                              requests_matched, requests_unmatched, draining>>
      ]_vars

\* on_configure has just returned Ok to an agent that has matched a request,
\* holds a match count and is draining
C18_Witness ==
    /\ probe = Some(Observation("on_configure", Ok))
    /\ requests_matched >= 1
    /\ \E id \in DOMAIN match_counts : match_counts[id] >= 1
    /\ draining

\* the gauge `name` of a metrics report
Gauge(report, name) ==
    (CHOOSE m \in {report.gauges[i] : i \in 1..Len(report.gauges)} :
        m.name = name).value

\* C19: health_status reports healthy exactly when the draining flag is
\* false, and degraded with the subsystem "stubbing" exactly when it is
\* true; the gauge mock_server_agent_draining of metrics_report is 1 exactly
\* when the flag is true, and 0 otherwise.
C19_HealthAndGaugeFollowDraining ==
    [][ /\ (Returns("health_status") \/ HealthStatus)
            => LET health == probe'.val.result
               IN  /\ probe'.val.callback = "health_status"
                   /\ health.state \in {"healthy", "degraded"}
                   /\ (health.state = "healthy") <=> ~draining'
                   /\ (/\ health.state = "degraded"
                       /\ health.subsystems = <<"stubbing">>) <=> draining'
        /\ (Returns("metrics_report") \/ MetricsReport)
            => LET report == probe'.val.result
               IN  /\ probe'.val.callback = "metrics_report"
                   /\ report.some
                   /\ Gauge(report.val, "mock_server_agent_draining")
                        = (IF draining' THEN 1 ELSE 0)
      ]_vars

\* health_status has just reported degraded, with stubbing disabled, for a
\* draining agent that has served a request
C19_Witness ==
    /\ probe = Some(Observation("health_status",
                 HealthStatus_degraded("mock-server", <<"stubbing">>, 1)))
    /\ draining
    /\ requests_total >= 1

\* ------------------------------------------------------ DelayConfig::calculate

\* the largest value of a field of a DelayConfig, in milliseconds
MaxDelayMs == 4

\* the delay specs
DelayConfigs ==
    {DelayConfig(fixed_ms, min_ms, max_ms) :
        fixed_ms \in 0..MaxDelayMs, min_ms \in 0..MaxDelayMs,
        max_ms \in 0..MaxDelayMs}

\* a delay spec whose delay has not been calculated yet
InitDelay ==
    /\ \E cfg \in Configs : MockServerAgent_new(cfg)
    /\ \E delay \in DelayConfigs :
          probe = Some([delay |-> delay, delay_ms |-> None])

\* delay.calculate() returns delay_ms
Calculate ==
    /\ probe.some
    /\ ~probe.val.delay_ms.some
    /\ \E delay_ms \in calculate(probe.val.delay) :
          probe' = Some([probe.val EXCEPT !.delay_ms = Some(delay_ms)])
    /\ UNCHANGED <<config, draining, requests_total, requests_matched,
                   requests_unmatched, match_counts, pc, call, ret, answered>>

NextDelay == Calculate

SpecDelay == InitDelay /\ [][NextDelay]_vars

\* C20: calculate returns fixed_ms when fixed_ms > 0; otherwise, when
\* max_ms > min_ms, an integer d with min_ms <= d <= max_ms; otherwise
\* min_ms, also when min_ms > max_ms.
C20_CalculateResolution ==
    (probe.some /\ probe.val.delay_ms.some) =>
        LET delay == probe.val.delay
            d == probe.val.delay_ms.val
        IN  IF delay.fixed_ms > 0 THEN d = delay.fixed_ms
            ELSE IF delay.max_ms > delay.min_ms
                 THEN d \in Int /\ delay.min_ms <= d /\ d <= delay.max_ms
                 ELSE d = delay.min_ms

\* calculate has returned min_ms for a spec without a fixed delay whose
\* min_ms is above its max_ms
C20_Witness ==
    /\ probe.some
    /\ probe.val.delay_ms.some
    /\ probe.val.delay.fixed_ms = 0
    /\ probe.val.delay.min_ms > probe.val.delay.max_ms
    /\ probe.val.delay_ms.val = probe.val.delay.min_ms

\* ------------------------------------------- claims C21 and following

\* C21: a parameter that no literal segment follows consumes only up to the
\* next '/': when the template ends in a parameter, a successful match
\* gives that parameter a value without '/', so a path with further
\* segments does not match.
C21_LastParamStopsAtSlash ==
    (probe.some /\ probe.val.done /\ probe.val.result.some) =>
        LET segments == PathTemplate_parse(probe.val.template)
            last == segments[Len(segments)]
        IN  last.kind = "Param" =>
                LET value == probe.val.result.val[last.text]
                IN  \A i \in 1..Len(value) : value[i] # "/"

\* ----------------------------------------- build_response on drawn stubs

\* the largest bytes_per_second of a drawn SlowResponse fault
MaxBps == 3

\* the stubs build_response is run on: a response with or without headers
\* (a Content-Type header in one of four spellings, next to another header),
\* with no body, a plain text, a text with a path tag or a text with a tag
\* that does not parse, rendered or not; no fault or one of Timeout, Corrupt
\* and SlowResponse; no delay or a fixed one
BuildStubs ==
    {StubDefinition("s", <<>>, None,
                    ResponseWith(200, headers, body, template),
                    0, TRUE, 0, delay, fault) :
        headers \in {<<>>} \cup
                    {(name :> "text/html") @@ ("X-Mock" :> "1") :
                        name \in {"content-type", "Content-Type",
                                  "Content-type", "CONTENT-TYPE"}},
        body \in {None, Some(Text(<<"o", "k">>)),
                  Some(Text(<<"i", "d", "=", "{{path.p}}">>)),
                  Some(Text(<<"o", "{{#if}}">>))},
        template \in BOOLEAN,
        delay \in {None, Some(DelayConfig(2, 0, 0))},
        fault \in {None, Some(FaultTimeout(1)), Some(FaultCorrupt(50))}
                  \cup {Some(FaultSlowResponse(bps)) : bps \in 0..MaxBps}}

\* an agent with one stub, which matched a request with the path parameter
\* p = 7; its response is not built yet
InitBuild ==
    \E stub \in BuildStubs :
        /\ MockServerAgent_new(MockServerConfig(<<stub>>, FALSE, None))
        /\ probe = Some([stub |-> stub,
                         match_ctx |-> MatchContext((<<"p">> :> <<"7">>)),
                         effect |-> None])

\* self.build_response(stub, match_ctx, ..).await, to its end
BuildResponse ==
    /\ probe.some
    /\ ~probe.val.effect.some
    /\ \E effect \in build_response(probe.val.stub, probe.val.match_ctx) :
          probe' = Some([probe.val EXCEPT !.effect = Some(effect)])
    /\ UNCHANGED <<config, draining, requests_total, requests_matched,
                   requests_unmatched, match_counts, pc, call, ret, answered>>

NextBuild == BuildResponse

SpecBuild == InitBuild /\ [][NextBuild]_vars

\* C22: when the Corrupt fault does not fire, and after the SlowResponse
\* delay, the reply is identical, in status, headers, body and tags, to
\* the reply the same stub gives to the same request with no fault
\* configured, the body template rendered when template is true.
C22_FallThroughIsNormalReply ==
    (probe.some /\ probe.val.effect.some) =>
        LET stub == probe.val.stub
            decision == probe.val.effect.val.decision
        IN  (/\ stub.fault.some
             /\ stub.fault.val.type \in {"corrupt", "slow_response"}
             /\ ~decision.fault_type.some) =>
                \A effect \in build_response([stub EXCEPT !.fault = None],
                                             probe.val.match_ctx) :
                    decision = effect.decision

\* C23: when rendering the body of a template: true response fails, the
\* reply carries the unrendered static body when the stub has a body; only
\* a stub with no body gets a reply without a body.
C23_RenderFailureKeepsStaticBody ==
    (probe.some /\ probe.val.effect.some) =>
        LET stub == probe.val.stub
            decision == probe.val.effect.val.decision
        IN  (/\ ~stub.fault.some
             /\ stub.response.template
             /\ stub.response.body.some
             /\ ~render_template_body(stub.response.body.val,
                                      probe.val.match_ctx).some) =>
                /\ decision.kind = "block"
                /\ decision.body = to_bytes(stub.response.body.val)

\* C24: every reply built from a stub's response definition has exactly one
\* Content-Type header, whose value is the first defined of: the header the
\* stub declares under a name equal to content-type ignoring case, the
\* type implied by the body variant, settings.default_content_type; no
\* stub-declared header of that name is emitted next to it.
C24_OneContentTypeCaseInsensitive ==
    (probe.some /\ probe.val.effect.some) =>
        LET response == probe.val.stub.response
            decision == probe.val.effect.val.decision
            declared == {name \in DOMAIN response.headers :
                            ToLower(name) = "content-type"}
            emitted == {h \in decision.headers :
                           ToLower(h[1]) = "content-type"}
            expected ==
                IF declared # {}
                THEN {response.headers[name] : name \in declared}
                ELSE IF response.body.some
                     THEN {content_type(response.body.val)}
                     ELSE {config.settings.default_content_type}
        IN  ~decision.fault_type.some =>
                /\ Cardinality(emitted) = 1
                /\ \A h \in emitted : h[1] = "Content-Type" /\ h[2] \in expected

\* C25: for a SlowResponse fault the sleep before the reply is exactly
\* ceil(body_size * 1000 / max(bytes_per_second, 1)) milliseconds, with
\* body_size the length of the stub's static body, 0 when it has no body.
C25_SlowResponseSleepIsCeiling ==
    (probe.some /\ probe.val.effect.some) =>
        LET stub == probe.val.stub
            bps == stub.fault.val.bytes_per_second
            divisor == IF bps > 1 THEN bps ELSE 1
            body_size == IF stub.response.body.some
                         THEN Len(stub.response.body.val.content) ELSE 0
        IN  (stub.fault.some /\ stub.fault.val.type = "slow_response") =>
                probe.val.effect.val.sleep =
                    Some((body_size * 1000 + divisor - 1) \div divisor)

\* C26: for a stub with both a fault and a delay the stub's delay is never
\* applied: the only sleep, if any, is the fault's own, the Timeout
\* duration or the SlowResponse delay, also when a Corrupt fault does not
\* fire and when a SlowResponse falls through to the normal response.
C26_FaultSkipsDelay ==
    (probe.some /\ probe.val.effect.some) =>
        LET stub == probe.val.stub
            sleep == probe.val.effect.val.sleep
        IN  (stub.fault.some /\ stub.delay.some) =>
                /\ \A delay_ms \in calculate(stub.delay.val) :
                       delay_ms > 0 => sleep # Some(delay_ms)
                /\ CASE stub.fault.val.type = "timeout" ->
                           sleep = Some(stub.fault.val.duration_ms)
                     [] stub.fault.val.type = "slow_response" ->
                           sleep = Some(SlowDelay(stub,
                                        stub.fault.val.bytes_per_second))
                     [] OTHER -> sleep = None

\* the response of a stub with a delay and a Corrupt fault was built, the
\* fault did not fire, and the builder did not sleep
C26_Witness ==
    /\ probe.some
    /\ probe.val.effect.some
    /\ probe.val.stub.delay.some
    /\ probe.val.stub.fault = Some(FaultCorrupt(50))
    /\ ~probe.val.effect.val.decision.fault_type.some
    /\ ~probe.val.effect.val.sleep.some

\* C27: within one on_request call the effects come in the order match,
\* cap check, counter updates, sleep, body build, reply: a call that has
\* reached the builder, is sleeping or was cancelled while sleeping has
\* found its stub, found it not exhausted, and added 1 to requests_total,
\* to requests_matched and to the stub's match count; a cancelled call has
\* returned no reply, and cancelling changes no counter.
C27_CountersBeforeSleep ==
    /\ [](\A c \in Callers :
            pc[c] \in {"build_response", "sleeping", "cancelled"} =>
                /\ call[c].match_result.some
                /\ ~call[c].exhausted
                /\ call[c].d_total = 1
                /\ call[c].d_matched = 1
                /\ call[c].d_unmatched = 0
                /\ call[c].d_counts = 1
                /\ match_counts[StubOf(call[c]).id] >= 1
                /\ pc[c] = "build_response" => ~call[c].effect.some
                /\ pc[c] = "cancelled" => ret[c] = None)
    /\ [][\A c \in Callers :
            (pc[c] = "sleeping" /\ pc'[c] = "cancelled") =>
                /\ ret'[c] = None
                /\ UNCHANGED <<requests_total, requests_matched,
                               requests_unmatched, match_counts, answered>>
         ]_vars

\* a call was cancelled while it slept; it is counted as a request and as
\* matched, and its stub's match count is up
C27_Witness ==
    \E c \in Callers :
        /\ pc[c] = "cancelled"
        /\ requests_total >= 1
        /\ requests_matched >= 1
        /\ match_counts[StubOf(call[c]).id] >= 1
        /\ answered[StubOf(call[c]).id] = 0

\* --------------------------------------------- the per-stub match counters

\* lines 434-457 of on_request for a live match, run by one caller without
\* interruption: find_match selects a stub, is_stub_exhausted finds it not
\* exhausted, and increment_match_count counts the match.  Only the match
\* counts are followed here: the request counters and the reply are left
\* out.
OnRequestLiveMatch(method, path) ==
    LET result == find_match(config.stubs, method, path)
    IN  /\ ~draining
        /\ result.some
        /\ ~is_stub_exhausted(config.stubs[result.val.stub], match_counts)
        /\ match_counts' = increment_match_count(
                               match_counts, config.stubs[result.val.stub].id)
        /\ UNCHANGED <<config, draining, requests_total, requests_matched,
                       requests_unmatched, pc, call, ret, answered, probe>>

NextCount == \E r \in Requests : OnRequestLiveMatch(r.method, r.path)

\* the agent under any number of live matches, one at a time
SpecCount == Init /\ [][NextCount]_vars

\* C28: every per-stub match counter is 0 initially and never decreases,
\* the counter being an unsigned integer of fixed width incremented once
\* per live match, also for a stub with max_matches = 0; so a stub that has
\* become exhausted stays exhausted.
C28_MatchCountsOnlyIncrease ==
    /\ \A id \in DOMAIN match_counts : match_counts[id] = 0
    /\ [][/\ \A id \in DOMAIN match_counts :
                match_counts'[id] >= match_counts[id]
          /\ \A i \in 1..Len(config.stubs) :
                is_stub_exhausted(config.stubs[i], match_counts) =>
                    is_stub_exhausted(config.stubs[i], match_counts')
         ]_vars

\* C29: in every reachable state, with on_request calls in flight and while
\* draining too, requests_matched + requests_unmatched <= requests_total,
\* and the difference is the number of requests passed through for
\* draining plus the number of calls that have incremented requests_total
\* and not yet classified their request: the difference less the calls not
\* yet classified is 0 initially, never negative, and grows, by 1, exactly
\* in the steps in which a call returns for draining.
C29_GapIsDrainedPlusInFlight ==
    /\ requests_total = 0 /\ requests_matched = 0 /\ requests_unmatched = 0
    /\ \A c \in Callers : pc[c] = "idle"
    /\ [](LET Unclassified == {"is_draining", "is_stub_exhausted",
                               "exhausted", "matched", "no_match"}
              passed ==
                  requests_total - requests_matched - requests_unmatched
                    - Cardinality({c \in Callers : pc[c] \in Unclassified})
          IN  /\ requests_matched + requests_unmatched <= requests_total
              /\ passed >= 0)
    /\ [][LET Unclassified == {"is_draining", "is_stub_exhausted",
                               "exhausted", "matched", "no_match"}
              passed ==
                  requests_total - requests_matched - requests_unmatched
                    - Cardinality({c \in Callers : pc[c] \in Unclassified})
              passed_next ==
                  requests_total' - requests_matched' - requests_unmatched'
                    - Cardinality({c \in Callers : pc'[c] \in Unclassified})
              drain_returns ==
                  Cardinality({c \in Callers :
                                  /\ pc[c] = "is_draining"
                                  /\ pc'[c] = "returned"
                                  /\ call'[c].is_draining})
          IN  passed_next = passed + drain_returns
         ]_vars

\* a request was passed through for draining while another call, which has
\* incremented requests_total, has not yet classified its request, after a
\* matched and an unmatched request
C29_Witness ==
    /\ \E c \in Callers : pc[c] = "returned" /\ call[c].is_draining
    /\ \E c \in Callers : pc[c] \in {"is_stub_exhausted", "matched", "no_match"}
    /\ requests_total - requests_matched - requests_unmatched = 2

\* C30: the cap check and the match-count increment are separate steps, so
\* with K on_request calls in flight together a stub with max_matches = n >
\* 0 can be answered more than n times, but its match count never exceeds
\* n + K - 1; with calls made one at a time (K = 1) it never exceeds n.
\* K is the number of callers that have made a call so far.
C30_BurstAtMostCallers ==
    LET K == Cardinality({c \in Callers : pc[c] # "idle"})
    IN  \A i \in 1..Len(config.stubs) :
            config.stubs[i].max_matches > 0 =>
                /\ K <= 1 => match_counts[config.stubs[i].id]
                                <= config.stubs[i].max_matches
                /\ K >= 1 => match_counts[config.stubs[i].id]
                                <= config.stubs[i].max_matches + K - 1

\* two calls in flight together have both counted a match of the stub
\* capped at 1: its match count is over the cap, by one less than the
\* callers, and it has answered more requests than its cap
C30_Witness ==
    \E i \in 1..Len(config.stubs) :
        /\ config.stubs[i].max_matches > 0
        /\ match_counts[config.stubs[i].id] = config.stubs[i].max_matches + 1
        /\ answered[config.stubs[i].id] > config.stubs[i].max_matches
        /\ Cardinality({c \in Callers : pc[c] # "idle"}) = 2

=============================================================================
